---- MODULE Spec2Model ----
(***************************************************************************)
(* A model of hex_it (src/src/main.rs): the hex codec, the fuzzy matcher,  *)
(* the editor state (parse_file / generate_message / print), the command   *)
(* interpreter (CommandLine::parse_command) and main's key loop with its   *)
(* capture thread.                                                         *)
(*                                                                         *)
(* Strings are sequences of character codes (the keys getch() delivers are *)
(* pushed into command_string as `key as char`); byte sequences are        *)
(* sequences of 0..255.                                                    *)
(***************************************************************************)
EXTENDS Integers, Sequences, FiniteSets, TLC

\* ------------------------------------------------------------------ bounds

\* Longest file loaded in the session specification.
MaxFileLen == 20
\* Most keys waiting in the (unbounded) mpsc channel.
MaxQueue == 2
\* Longest string handed to hex_to_bytes in SpecDecode.
MaxHexLen == 4
\* Longest input handed to the fuzzy matcher in SpecSuggest.
MaxInputLen == 4
\* Longest of the files of every byte pattern handed to parse_file in SpecParse.
MaxBytesLen == 2
\* Longest of the patterned files handed to parse_file in SpecParse.
MaxParseLen == 33
\* Longest string handed to levenshtein_distance in SpecDistance.
MaxDistLen == 3

\* --------------------------------------------------------- program constants

\* contents.as_bytes().chunks(16); self.offset += 16; from_str_radix(..) / 16
ChunkSize == 16
\* format!("{:08X}  {:<48}  {}\n", ...): the hex column's minimum width
HexColumnWidth == 48
\* i32::from_str_radix: the largest i32
I32Max == 2147483647

\* Key codes main's loop and the capture thread test for.
KEY_ESC == 27
KEY_CTRL_C == 3
KEY_ENTER == 13
KEY_BACKSPACE == 8

\* Character codes.
SPACE == 32
NEWLINE == 10
DOT == 46

\* ------------------------------------------------------------ string helpers

Min2(a, b) == IF a < b THEN a ELSE b

\* s.replace(' ', "")
StripSpaces(s) == SelectSeq(s, LAMBDA c : c # SPACE)

\* str::to_ascii_lowercase
to_ascii_lowercase(s) == [i \in 1..Len(s) |-> IF s[i] >= 65 /\ s[i] <= 90 THEN s[i] + 32 ELSE s[i]]

RECURSIVE Spaces(_)
Spaces(n) == IF n <= 0 THEN <<>> ELSE <<SPACE>> \o Spaces(n - 1)

RECURSIVE Concat(_)
\* the concatenation of a sequence of sequences, in order
Concat(ss) == IF ss = <<>> THEN <<>> ELSE Head(ss) \o Concat(Tail(ss))

RECURSIVE SplitFrom(_, _, _)
\* command.split(' '): cur is the token being collected from position i on
SplitFrom(s, i, cur) ==
    IF i > Len(s) THEN <<cur>>
    ELSE IF s[i] = SPACE THEN <<cur>> \o SplitFrom(s, i + 1, <<>>)
    ELSE SplitFrom(s, i + 1, Append(cur, s[i]))

split_space(s) == SplitFrom(s, 1, <<>>)

\* ------------------------------------------------------------------ HexCodec

\* char::to_digit(16): the digit's value, or -1 for None
to_digit16(c) ==
    IF c >= 48 /\ c <= 57 THEN c - 48
    ELSE IF c >= 65 /\ c <= 70 THEN c - 55
    ELSE IF c >= 97 /\ c <= 102 THEN c - 87
    ELSE -1

None == [ok |-> FALSE, bytes |-> <<>>]
Some(b) == [ok |-> TRUE, bytes |-> b]

RECURSIVE HexLoop(_, _, _, _, _)
\* the for loop of hex_to_bytes over hex_string.chars(), from position i
HexLoop(s, i, bytes, byte, nibble_count) ==
    IF i > Len(s)
    THEN IF nibble_count # 0 THEN None ELSE Some(bytes)
    ELSE LET nibble == to_digit16(s[i]) IN
         IF nibble = -1 THEN None
         ELSE LET b == ((byte * 16) % 256) + nibble
                      \* (byte << 4) | nibble on a u8; the low nibble is clear
              IN IF nibble_count + 1 = 2
                 THEN HexLoop(s, i + 1, Append(bytes, b), 0, 0)
                 ELSE HexLoop(s, i + 1, bytes, b, nibble_count + 1)

\* a faulty variant: the second digit of a pair taken as the high nibble
hex_to_bytes_low_nibble_first(hex_string) ==
    LET r == HexLoop(hex_string, 1, <<>>, 0, 0) IN
    IF r.ok
    THEN Some([i \in 1..Len(r.bytes) |-> (r.bytes[i] % 16) * 16 + (r.bytes[i] \div 16)])
    ELSE r

\* hex_to_bytes: None for a character that is no hex digit or a digit left
\* over, else Some(bytes)
hex_to_bytes(hex_string) == HexLoop(hex_string, 1, <<>>, 0, 0)

\* one digit of format!("{:X}")
HexChar(n) == IF n < 10 THEN 48 + n ELSE 55 + n

\* a faulty variant: the low nibble written first
FormatByte_low_nibble_first(byte) == <<HexChar(byte % 16), HexChar(byte \div 16), SPACE>>

\* format!("{:02X} ", byte)
FormatByte(byte) == <<HexChar(byte \div 16), HexChar(byte % 16), SPACE>>

RECURSIVE HexAll(_)
\* format!("{:X}", n) for n >= 0
HexAll(n) == IF n < 16 THEN <<HexChar(n)>> ELSE Append(HexAll(n \div 16), HexChar(n % 16))

RECURSIVE Zeros(_)
Zeros(n) == IF n <= 0 THEN <<>> ELSE <<48>> \o Zeros(n - 1)

\* format!("{:08X}", offset) for an offset >= 0: zero-padded to 8 digits, never cut
FormatOffset(offset) == Zeros(8 - Len(HexAll(offset))) \o HexAll(offset)

\* format!("{:<48}", line): padded on the right to 48 characters, never cut
PadLine(line) == line \o Spaces(HexColumnWidth - Len(line))

\* ------------------------------------------------------------------- UTF-8

IsCont(b) == b >= 128 /\ b <= 191

RECURSIVE IsUtf8From(_, _)
\* std's UTF-8 validation (String::from_utf8, read_to_string), from position i
IsUtf8From(b, i) ==
    IF i > Len(b) THEN TRUE
    ELSE LET x == b[i]
             has(k) == i + k <= Len(b)
         IN
         IF x <= 127 THEN IsUtf8From(b, i + 1)
         ELSE IF x >= 194 /\ x <= 223
              THEN has(1) /\ IsCont(b[i + 1]) /\ IsUtf8From(b, i + 2)
         ELSE IF x >= 224 /\ x <= 239
              THEN /\ has(2)
                   /\ IF x = 224 THEN b[i + 1] >= 160 /\ b[i + 1] <= 191
                      ELSE IF x = 237 THEN b[i + 1] >= 128 /\ b[i + 1] <= 159
                      ELSE IsCont(b[i + 1])
                   /\ IsCont(b[i + 2])
                   /\ IsUtf8From(b, i + 3)
         ELSE IF x >= 240 /\ x <= 244
              THEN /\ has(3)
                   /\ IF x = 240 THEN b[i + 1] >= 144 /\ b[i + 1] <= 191
                      ELSE IF x = 244 THEN b[i + 1] >= 128 /\ b[i + 1] <= 143
                      ELSE IsCont(b[i + 1])
                   /\ IsCont(b[i + 2])
                   /\ IsCont(b[i + 3])
                   /\ IsUtf8From(b, i + 4)
         ELSE FALSE

IsUtf8(b) == IsUtf8From(b, 1)

\* ------------------------------------------------------------- EditorState

RECURSIVE chunks(_, _)
\* slice::chunks(n): consecutive chunks of n elements, the last one shorter
chunks(b, n) ==
    IF b = <<>> THEN <<>>
    ELSE <<SubSeq(b, 1, Min2(n, Len(b)))>> \o chunks(SubSeq(b, Min2(n, Len(b)) + 1, Len(b)), n)

\* the hex_chunk of one chunk: "{:02X} " for every byte of every group of 2
hex_chunk(chunk) == Concat([i \in 1..Len(chunk) |-> FormatByte(chunk[i])])

\* read_to_string(&mut contents): Err unless the file's bytes are UTF-8
read_to_string_ok(bytes) == IsUtf8(bytes)

\* EditorState::parse_file once the contents are read: hex_lines with one line
\* pushed per chunk of 16 bytes
parse_file(hex_lines, contents) ==
    hex_lines \o [i \in 1..Len(chunks(contents, ChunkSize)) |-> hex_chunk(chunks(contents, ChunkSize)[i])]

\* ".".bold_black() of tui_tools::Colors: the dot between the ANSI codes for
\* bold black and reset ("\x1b[1;30m.\x1b[0m")
bold_black_dot == <<27, 91, 49, 59, 51, 48, 109, DOT, 27, 91, 48, 109>>

newline_replacement(colors) == IF colors THEN bold_black_dot ELSE <<DOT>>

\* String::replace('\n', newline_replacement) on the UTF-8 bytes of the text
replace_newlines(bytes, colors) ==
    Concat([i \in 1..Len(bytes) |->
        IF bytes[i] = NEWLINE THEN newline_replacement(colors) ELSE <<bytes[i]>>])

PanicDecode == "Failed to decode hex string"
PanicUtf8 == "Failed to convert bytes to string"
NoPanic == "none"

\* a faulty variant: a line that does not decode is rendered as no bytes
line_panic_decode_ignored(line) ==
    LET r == hex_to_bytes(StripSpaces(line)) IN
    IF r.ok /\ ~IsUtf8(r.bytes) THEN PanicUtf8 ELSE NoPanic

\* what generate_message does with one line: the panic it dies of, if any
line_panic(line) ==
    LET r == hex_to_bytes(StripSpaces(line)) IN
    IF ~r.ok THEN PanicDecode
    ELSE IF ~IsUtf8(r.bytes) THEN PanicUtf8
    ELSE NoPanic

\* one row of the dump: format!("{:08X}  {:<48}  {}\n", self.offset, line, text)
\* as its three columns
message_row(offset, line, colors) ==
    [offset |-> FormatOffset(offset),
     hex    |-> PadLine(line),
     text   |-> replace_newlines(hex_to_bytes(StripSpaces(line)).bytes, colors)]

\* a faulty variant: the offset advanced by the bytes each line decodes to
generate_message_offset_by_bytes(hex_lines, colors) ==
    LET bad == {i \in 1..Len(hex_lines) : line_panic(hex_lines[i]) # NoPanic}
        before(i) == Len(Concat([k \in 1..(i - 1) |->
                            hex_to_bytes(StripSpaces(hex_lines[k])).bytes]))
    IN
    IF bad # {}
    THEN LET first == CHOOSE i \in bad : \A k \in bad : i <= k IN
         [panic |-> line_panic(hex_lines[first]),
          message |-> <<>>, offset |-> before(first)]
    ELSE [panic |-> NoPanic,
          message |-> [i \in 1..Len(hex_lines) |->
                          message_row(before(i), hex_lines[i], colors)],
          offset |-> before(Len(hex_lines) + 1)]

\* EditorState::generate_message: the panic of the first line that fails (the
\* loop stops there), else the rows and the offset the counter rests at
generate_message(hex_lines, colors) ==
    LET bad == {i \in 1..Len(hex_lines) : line_panic(hex_lines[i]) # NoPanic} IN
    IF bad # {}
    THEN LET first == CHOOSE i \in bad : \A k \in bad : i <= k IN
         [panic |-> line_panic(hex_lines[first]),
          message |-> <<>>, offset |-> (first - 1) * ChunkSize]
    ELSE [panic |-> NoPanic,
          message |-> [i \in 1..Len(hex_lines) |->
                          message_row((i - 1) * ChunkSize, hex_lines[i], colors)],
          offset |-> Len(hex_lines) * ChunkSize]

\* ------------------------------------------------------------ FuzzyMatcher

RECURSIVE LevRow_no_transposition(_, _, _, _, _, _, _)
\* a faulty variant: the row filled without the transposition
LevRow_no_transposition(string1, string2, i, j, prev2, prev, cur) ==
    IF j > Len(string2) THEN cur
    ELSE LET cost == IF string1[i] = string2[j] THEN 0 ELSE 1
             v == Min2(Min2(prev[j + 1] + 1, cur[j] + 1), prev[j] + cost)
         IN LevRow_no_transposition(string1, string2, i, j + 1, prev2, prev, Append(cur, v))

RECURSIVE LevRow(_, _, _, _, _, _, _)
\* row i of the matrix of levenshtein_distance, filled from column j on; prev2
\* and prev are rows i - 2 and i - 1, and column j is at index j + 1
LevRow(string1, string2, i, j, prev2, prev, cur) ==
    IF j > Len(string2) THEN cur
    ELSE LET cost == IF string1[i] = string2[j] THEN 0 ELSE 1
             v == Min2(Min2(prev[j + 1] + 1, cur[j] + 1), prev[j] + cost)
             w == IF /\ i > 1
                     /\ j > 1
                     /\ string1[i] = string2[j - 1]
                     /\ string1[i - 1] = string2[j]
                  THEN Min2(v, prev2[j - 1] + cost)
                  ELSE v
         IN LevRow(string1, string2, i, j + 1, prev2, prev, Append(cur, w))

RECURSIVE LevRows(_, _, _, _, _)
LevRows(string1, string2, i, prev2, prev) ==
    IF i > Len(string1) THEN prev
    ELSE LevRows(string1, string2, i + 1, prev,
                 LevRow(string1, string2, i, 1, prev2, prev, <<i>>))

\* levenshtein_distance: matrix[len1][len2]
levenshtein_distance(string1, string2) ==
    LevRows(string1, string2, 1, <<>>, [j \in 1..Len(string2) + 1 |-> j - 1])[Len(string2) + 1]

RECURSIVE ClosestLoop(_, _, _, _)
\* the loop over the candidates from the k-th on; closest_match is <<distance, name>>
ClosestLoop(arg, names, k, closest_match) ==
    IF k > Len(names) THEN closest_match
    ELSE LET distance == levenshtein_distance(arg, names[k]) IN
         ClosestLoop(arg, names, k + 1,
                     IF distance < closest_match[1] \/ closest_match[1] = 0
                     THEN <<distance, names[k]>>
                     ELSE closest_match)

\* the name print_unknown_command_error and parse_command's last arm print
closest_match(arg, names) == ClosestLoop(arg, names, 1, <<0, <<>>>>)[2]

\* "help", "quit", "get", "save", "colors", "path"
STR_help == <<104, 101, 108, 112>>
STR_quit == <<113, 117, 105, 116>>
STR_get == <<103, 101, 116>>
STR_save == <<115, 97, 118, 101>>
STR_colors == <<99, 111, 108, 111, 114, 115>>
STR_path == <<112, 97, 116, 104>>

\* COMMANDS: the names of the command-line flags, in order
COMMANDS == <<STR_help, STR_colors, STR_path>>

\* CommandLine::new: command_names, in order
command_names == <<STR_help, STR_quit, STR_get, STR_save>>

\* ----------------------------------------------------------------- state

VARIABLES
    disk,            \* the file system: path -> bytes, or NoFile
    colors,          \* CliArgs.colors / EditorState.colors
    status,          \* the process: "start", "running", "exit0", "exit1", "panic", "returned"
    editor,          \* main's editor: [offset, hex_lines, pretty_print]
    cl_editor,       \* command_line.editor
    command_string,  \* main's command_string
    chan,            \* the keys sent on tx and not yet received on rx
    getch_pc,        \* the capture thread: "getch", "sent" (a key that ends it), "stopped"
    typed,           \* the keys the user has typed since the last Enter
    screen,          \* the dump EditorState::print printed last
    out,             \* what the command dispatched last printed, until the next key
    hist,            \* history: the bytes loaded, whether a line was replaced
    arg,             \* the input of a function applied on its own (SpecDecode, SpecSuggest)
    ret              \* its result

vars == <<disk, colors, status, editor, cl_editor, command_string, chan,
          getch_pc, typed, screen, out, hist, arg, ret>>

session_vars == <<disk, colors, status, editor, cl_editor, command_string, chan,
                  getch_pc, typed, screen, out, hist>>

\* no file at the path: told from every file's bytes by a value no byte has
NoFile == <<-1>>
NoOut == [msg |-> "", text |-> <<>>]
\* no input, no result yet (a result r is held as <<r>>)
Idle == <<>>

\* CliArgs.file: "f"; the path a `save b` names: "b"
FilePath == <<102>>
OtherPath == <<98>>
Paths == {FilePath, OtherPath}

\* ----------------------------------------------------------- the inputs

PlainByte(i) == 65 + (i % 25)
Plain(n) == [i \in 1..n |-> PlainByte(i)]

\* bytes b with the bytes sp written from position pos on
Put(b, pos, sp) ==
    [i \in 1..Len(b) |-> IF i >= pos /\ i < pos + Len(sp) THEN sp[i - pos + 1] ELSE b[i]]

FileLens == {0, 3, ChunkSize, MaxFileLen}

\* nothing, a newline, a two-byte character (U+00E9), a byte that is no UTF-8
Specials == {<<>>, <<NEWLINE>>, <<195, 169>>, <<255>>}

\* The files of the session: plain text, and text with a special in it - at
\* its start or at its last byte in a file of one chunk, from the last byte of
\* the first chunk on in a longer file (a two-byte character there straddles
\* the chunk boundary).
Files ==
    {Put(Plain(n), pos, sp) : <<n, pos, sp>> \in
        {t \in FileLens \X {1, ChunkSize} \X Specials :
            /\ t[2] + Len(t[3]) - 1 <= t[1]
            /\ t[1] > ChunkSize => t[2] = ChunkSize}}

\* "0A4141..41": 17 bytes in 34 digits, a newline and 16 times 'A'
LongLine == <<48, 65>> \o [i \in 1..(2 * ChunkSize) |-> IF i % 2 = 1 THEN 52 ELSE 49]

\* What the user answers when `get` asks for the replacement of a line:
\* nothing, "41 42 ", the line of 17 bytes, "4", "ZZ", "FF"
ReplacementInputs ==
    {<<>>, <<52, 49, SPACE, 52, 50, SPACE>>, LongLine, <<52>>, <<90, 90>>, <<70, 70>>}

\* a line and the key that ends it
Entered(line) == Append(line, KEY_ENTER)

\* What the user types, as keys up to the key that ends the line (Enter,
\* Escape or Ctrl-C): "", "help", "help.", "helpx<BS>", "quit", "hepl", "get",
\* "get ", "get 0", "get 10", "get 20", "get 30", "get G", "get 80000000",
\* "save", "save b", "HELP", "q", each entered; Escape and Ctrl-C, alone and
\* after "he"
UserLines ==
    {Entered(l) : l \in
        {<<>>, STR_help, STR_help \o <<DOT>>, STR_help \o <<120, KEY_BACKSPACE>>,
         STR_quit, <<104, 101, 112, 108>>, <<72, 69, 76, 80>>, <<113>>,
         STR_get, STR_get \o <<SPACE>>, STR_get \o <<SPACE, 48>>,
         STR_get \o <<SPACE, 49, 48>>, STR_get \o <<SPACE, 50, 48>>,
         STR_get \o <<SPACE, 51, 48>>, STR_get \o <<SPACE, 71>>,
         STR_get \o <<SPACE, 56, 48, 48, 48, 48, 48, 48, 48>>,
         STR_save, STR_save \o <<SPACE>> \o OtherPath}}
    \cup {<<KEY_ESC>>, <<KEY_CTRL_C>>, <<104, 101, KEY_ESC>>, <<104, 101, KEY_CTRL_C>>}

IsPrefix(p, l) == Len(p) <= Len(l) /\ SubSeq(l, 1, Len(p)) = p

\* the keys the user may type next
NextKeys ==
    {l[Len(typed) + 1] : l \in {l \in UserLines : IsPrefix(typed, l) /\ Len(l) > Len(typed)}}

\* the keys that are neither Enter, Escape nor Ctrl-C
OtherKeys ==
    (UNION {{l[i] : i \in 1..Len(l)} : l \in UserLines}) \ {KEY_ENTER, KEY_ESC, KEY_CTRL_C}

\* ------------------------------------------------------------------ Init

NewEditor == [offset |-> 0, hex_lines |-> <<>>, pretty_print |-> <<>>]

\* The state when main starts: the file named on the command line exists,
\* nothing is loaded yet.
SessionInit ==
    /\ disk \in {[p \in Paths |-> IF p = FilePath THEN f ELSE NoFile] : f \in Files}
    /\ colors \in BOOLEAN
    /\ status = "start"
    /\ editor = NewEditor
    /\ cl_editor = NewEditor
    /\ command_string = <<>>
    /\ chan = <<>>
    /\ getch_pc = "getch"
    /\ typed = <<>>
    /\ screen = <<>>
    /\ out = NoOut
    /\ hist = [loaded |-> <<>>, edited |-> FALSE]

Init ==
    /\ SessionInit
    /\ arg = Idle
    /\ ret = Idle

\* -------------------------------------------------------- EditorState::print

\* EditorState::print: the message is generated when pretty_print is empty;
\* shown is what it prints
print(ed) ==
    IF ed.pretty_print = <<>>
    THEN LET g == generate_message(ed.hex_lines, colors) IN
         [panic |-> g.panic,
          editor |-> [ed EXCEPT !.pretty_print = g.message, !.offset = g.offset],
          shown |-> g.message]
    ELSE [panic |-> NoPanic, editor |-> ed, shown |-> ed.pretty_print]

\* the process dies of a panic with this message
Panicked(msg) == [msg |-> msg, text |-> <<>>]

\* ------------------------------------------------------------ main: start

\* main, lines 451-457: EditorState::new, parse_file, print, CommandLine::new
Load ==
    /\ status = "start"
    /\ LET contents == disk[FilePath] IN
       IF ~read_to_string_ok(contents)
       THEN /\ status' = "panic"
            /\ out' = Panicked("Failed to read file contents")
            /\ UNCHANGED <<editor, cl_editor, screen, hist>>
       ELSE LET ed == [NewEditor EXCEPT !.hex_lines = parse_file(<<>>, contents)]
                pr == print(ed)
            IN /\ hist' = [hist EXCEPT !.loaded = contents]
               /\ IF pr.panic # NoPanic
                  THEN /\ status' = "panic"
                       /\ out' = Panicked(pr.panic)
                       /\ editor' = ed
                       /\ UNCHANGED <<cl_editor, screen>>
                  ELSE /\ status' = "running"
                       /\ editor' = pr.editor
                       /\ cl_editor' = pr.editor
                       /\ screen' = pr.shown
                       /\ out' = NoOut
    /\ UNCHANGED <<disk, colors, command_string, chan, getch_pc, typed, arg, ret>>

\* -------------------------------------------------- the capture thread

ProcessAlive == status \in {"start", "running", "joining"}

\* a faulty variant: the thread goes on capturing after it sent key 27 or 3
GetchSend_no_break ==
    /\ ProcessAlive
    /\ getch_pc = "getch"
    /\ Len(chan) < MaxQueue
    /\ \E key \in NextKeys :
        /\ chan' = Append(chan, key)
        /\ getch_pc' = "getch"
        /\ typed' = IF key = KEY_ENTER THEN <<>> ELSE Append(typed, key)
    /\ UNCHANGED <<disk, colors, status, editor, cl_editor, command_string, screen,
                   out, hist, arg, ret>>

\* getch_thread: key = getch(); tx.send(key)
GetchSend ==
    /\ ProcessAlive
    /\ getch_pc = "getch"
    /\ Len(chan) < MaxQueue
    /\ \E key \in NextKeys :
        /\ chan' = Append(chan, key)
        /\ getch_pc' = IF key = KEY_ESC \/ key = KEY_CTRL_C THEN "sent" ELSE "getch"
        /\ typed' = IF key = KEY_ENTER THEN <<>> ELSE Append(typed, key)
    /\ UNCHANGED <<disk, colors, status, editor, cl_editor, command_string, screen,
                   out, hist, arg, ret>>

\* getch_thread: key == 27 || key == 3 => break
GetchBreak ==
    /\ ProcessAlive
    /\ getch_pc = "sent"
    /\ getch_pc' = "stopped"
    /\ UNCHANGED <<disk, colors, status, editor, cl_editor, command_string, chan,
                   typed, screen, out, hist, arg, ret>>

\* ---------------------------------------------------- i32::from_str_radix

Err == [ok |-> FALSE, value |-> 0]
Ok(v) == [ok |-> TRUE, value |-> v]

RECURSIVE RadixLoop(_, _, _, _)
\* the digits of src from position i on, accumulated into an i32 with checked
\* arithmetic: upwards for a positive number, downwards for a negative one
RadixLoop(src, i, acc, positive) ==
    IF i > Len(src) THEN Ok(acc)
    ELSE LET d == to_digit16(src[i])
             q == I32Max \div 16
         IN IF d = -1 THEN Err
            ELSE IF positive
                 THEN IF acc > q THEN Err
                      ELSE RadixLoop(src, i + 1, acc * 16 + d, positive)
                 ELSE IF acc < (IF d = 0 THEN -q - 1 ELSE -q) THEN Err
                      ELSE RadixLoop(src, i + 1, acc * 16 - d, positive)

\* a faulty variant: a numeral that does not parse counts as 0 (unwrap_or(0))
from_str_radix16_or_zero(src) ==
    LET r == IF src = <<>> THEN Err
             ELSE IF src[1] = 43 \/ src[1] = 45
                  THEN IF Len(src) = 1 THEN Err ELSE RadixLoop(src, 2, 0, src[1] = 43)
                  ELSE RadixLoop(src, 1, 0, TRUE)
    IN IF r.ok THEN r ELSE Ok(0)

\* i32::from_str_radix(src, 16)
from_str_radix16(src) ==
    IF src = <<>> THEN Err
    ELSE IF src[1] = 43 \/ src[1] = 45
         THEN IF Len(src) = 1 THEN Err
              ELSE RadixLoop(src, 2, 0, src[1] = 43)
         ELSE RadixLoop(src, 1, 0, TRUE)

\* i32 division by 16, rounding towards zero
div16(v) == IF v >= 0 THEN v \div ChunkSize ELSE (v + (ChunkSize - 1)) \div ChunkSize

\* -------------------------------------------------- CommandLine::parse_command

\* What a command does to the session: the process's status after it,
\* command_line.editor, the file system and what it printed.
Result(st, cle, dsk, o) == [status |-> st, cl_editor |-> cle, disk |-> dsk, out |-> o]

Said(msg, text) == [msg |-> msg, text |-> text]

\* a faulty variant: the text is stored at the index and in the line before it
replace_line_and_previous(cle, idx, input) ==
    LET lines == [i \in 1..Len(cle.hex_lines) |->
                     IF i = idx + 1 \/ i = idx THEN input ELSE cle.hex_lines[i]]
        g == generate_message(lines, colors)
    IN IF g.panic # NoPanic
       THEN Result("panic", [cle EXCEPT !.hex_lines = lines, !.offset = g.offset],
                   disk, Panicked(g.panic))
       ELSE Result("running",
                   [cle EXCEPT !.hex_lines = lines, !.pretty_print = g.message,
                               !.offset = g.offset],
                   disk, Said("edited", input))

\* a faulty variant: the text is stored as a new line after the index
replace_line_inserts(cle, idx, input) ==
    LET lines == SubSeq(cle.hex_lines, 1, idx + 1) \o <<input>>
                 \o SubSeq(cle.hex_lines, idx + 2, Len(cle.hex_lines))
        g == generate_message(lines, colors)
    IN IF g.panic # NoPanic
       THEN Result("panic", [cle EXCEPT !.hex_lines = lines, !.offset = g.offset],
                   disk, Panicked(g.panic))
       ELSE Result("running",
                   [cle EXCEPT !.hex_lines = lines, !.pretty_print = g.message,
                               !.offset = g.offset],
                   disk, Said("edited", input))

\* a faulty variant: the line is stored and the cached message kept as it was
replace_line_stale(cle, idx, input) ==
    Result("running", [cle EXCEPT !.hex_lines = [cle.hex_lines EXCEPT ![idx + 1] = input]],
           disk, Said("edited", input))

\* the text the user answers with is stored at index idx and the message regenerated
replace_line(cle, idx, input) ==
    LET lines == [cle.hex_lines EXCEPT ![idx + 1] = input]
        g == generate_message(lines, colors)
    IN IF g.panic # NoPanic
       THEN Result("panic", [cle EXCEPT !.hex_lines = lines, !.offset = g.offset],
                   disk, Panicked(g.panic))
       ELSE Result("running",
                   [cle EXCEPT !.hex_lines = lines, !.pretty_print = g.message,
                               !.offset = g.offset],
                   disk, Said("edited", input))

\* decimal_value as usize > self.editor.hex_lines.len()
index_check(decimal_value, len) == decimal_value < 0 \/ decimal_value > len

\* the "get" arm, with the line same_line_input returns
get_command(cle, args, input) ==
    IF Len(args) < 2 THEN Result("running", cle, disk, Said("No line specified.", <<>>))
    ELSE IF args[2] = <<>> THEN Result("running", cle, disk, Said("No line specified.", <<>>))
    ELSE LET parsed == from_str_radix16(args[2]) IN
         IF ~parsed.ok THEN Result("exit1", cle, disk, Said("Invalid value", args[2]))
         ELSE LET decimal_value == div16(parsed.value) IN
              IF index_check(decimal_value, Len(cle.hex_lines))
              THEN Result("running", cle, disk, Said("Line out of range.", <<>>))
              ELSE IF decimal_value >= Len(cle.hex_lines)
                   THEN Result("panic", cle, disk, Panicked("index out of bounds"))
                   ELSE IF input = <<>>
                        THEN Result("running", cle, disk,
                                    Said("line", cle.hex_lines[decimal_value + 1]))
                        ELSE replace_line(cle, decimal_value, input)

\* a faulty variant: the lines decoded and written last line first
save_contents_reversed(hex_lines) ==
    Concat([i \in 1..Len(hex_lines) |->
        hex_to_bytes(StripSpaces(hex_lines[Len(hex_lines) + 1 - i])).bytes])

\* the bytes the "save" arm writes: every line decoded, in order
save_contents(hex_lines) ==
    Concat([i \in 1..Len(hex_lines) |-> hex_to_bytes(StripSpaces(hex_lines[i])).bytes])

IoOutcomes == {"ok", "create fails", "write fails", "canonicalize fails"}

\* the "save" arm, with what the file system does (io) and, when write_all
\* fails, the number of bytes it wrote before
save_command(cle, args, io, written) ==
    LET file_path == IF Len(args) >= 2 THEN args[2] ELSE FilePath
        bad == {i \in 1..Len(cle.hex_lines) : line_panic(cle.hex_lines[i]) # NoPanic}
        contents == save_contents(cle.hex_lines)
    IN IF file_path \notin Paths \/ io = "create fails"
       THEN Result("panic", cle, disk, Panicked("File::create"))
       ELSE LET created == [disk EXCEPT ![file_path] = <<>>] IN
            IF bad # {}
            THEN Result("panic", cle, created, Panicked("save: decode"))
            ELSE IF io = "write fails"
                 THEN Result("panic", cle,
                             [disk EXCEPT ![file_path] = SubSeq(contents, 1, Min2(written, Len(contents)))],
                             Panicked("write_all"))
                 ELSE LET saved == [disk EXCEPT ![file_path] = contents] IN
                      IF io = "canonicalize fails"
                      THEN Result("panic", cle, saved, Panicked("canonicalize"))
                      ELSE Result("exit0", cle, saved, Said("Saved to", file_path))

\* a faulty variant: an unknown command ends the process with status 1
unknown_command_exits(cle, args) ==
    Result("exit1", cle, disk, Said("Unknown command", closest_match(args[1], command_names)))

\* the last arm: the closest command name is suggested
unknown_command(cle, args) ==
    Result("running", cle, disk, Said("Unknown command", closest_match(args[1], command_names)))

\* ----------------------------------------------------------- main's loop

\* rx.try_recv() returns Ok(key)
Recv(key) ==
    /\ status = "running"
    /\ chan # <<>>
    /\ Head(chan) = key
    /\ chan' = Tail(chan)

args_of(command) == split_space(command)

command_of(command) == to_ascii_lowercase(args_of(command)[1])

\* key 13: editor.print(); command_line.new_command(..); editor =
\* command_line.editor.clone(); editor.print(); command_string.clear(),
\* where r is what the command does
Submit(r) ==
    LET before == print(editor)
        after == print(r.cl_editor)
    IN /\ cl_editor' = r.cl_editor
       /\ disk' = r.disk
       /\ hist' = [hist EXCEPT !.edited = @ \/ r.out.msg = "edited"]
       /\ IF before.panic # NoPanic
          THEN /\ status' = "panic"
               /\ out' = Panicked(before.panic)
               /\ UNCHANGED <<editor, screen, command_string>>
          ELSE IF r.status # "running"
          THEN /\ status' = r.status
               /\ out' = r.out
               /\ editor' = before.editor
               /\ screen' = before.shown
               /\ UNCHANGED command_string
          ELSE IF after.panic # NoPanic
          THEN /\ status' = "panic"
               /\ out' = Panicked(after.panic)
               /\ editor' = r.cl_editor
               /\ screen' = before.shown
               /\ UNCHANGED command_string
          ELSE /\ status' = "running"
               /\ out' = r.out
               /\ editor' = after.editor
               /\ screen' = after.shown
               /\ command_string' = <<>>
       /\ UNCHANGED <<colors, getch_pc, typed, arg, ret>>

EnterHelp ==
    /\ Recv(KEY_ENTER)
    /\ command_of(command_string) = STR_help
    /\ Submit(Result("running", cl_editor, disk, Said("Commands:", <<>>)))

EnterQuit ==
    /\ Recv(KEY_ENTER)
    /\ command_of(command_string) = STR_quit
    /\ Submit(Result("exit0", cl_editor, disk, Said("quit", <<>>)))

EnterGet ==
    /\ Recv(KEY_ENTER)
    /\ command_of(command_string) = STR_get
    /\ \E input \in ReplacementInputs :
        Submit(get_command(cl_editor, args_of(command_string), input))

\* the bytes a write_all that fails may have written of n: none, one, all but one
PartialWrites(n) == {0, 1, n - 1} \cap (0..n)

EnterSave ==
    /\ Recv(KEY_ENTER)
    /\ command_of(command_string) = STR_save
    /\ \E io \in IoOutcomes, written \in PartialWrites(Len(save_contents(cl_editor.hex_lines))) :
        /\ io # "write fails" => written = 0
        /\ Submit(save_command(cl_editor, args_of(command_string), io, written))

EnterEmpty ==
    /\ Recv(KEY_ENTER)
    /\ args_of(command_string)[1] = <<>>
    /\ Submit(Result("running", cl_editor, disk, Said("", <<>>)))

EnterUnknown ==
    /\ Recv(KEY_ENTER)
    /\ command_of(command_string) \notin {STR_help, STR_quit, STR_get, STR_save}
    /\ args_of(command_string)[1] # <<>>
    /\ Submit(unknown_command(cl_editor, args_of(command_string)))

\* key 27: break
MainEscape ==
    /\ Recv(KEY_ESC)
    /\ status' = "joining"
    /\ UNCHANGED <<disk, colors, editor, cl_editor, command_string, getch_pc, typed,
                   screen, out, hist, arg, ret>>

\* key 3: process::exit(0)
MainInterrupt ==
    /\ Recv(KEY_CTRL_C)
    /\ status' = "exit0"
    /\ UNCHANGED <<disk, colors, editor, cl_editor, command_string, getch_pc, typed,
                   screen, out, hist, arg, ret>>

\* the keys command_string takes
is_command_char(key) ==
    \/ key > 64 /\ key < 90
    \/ key > 96 /\ key < 123
    \/ key > 47 /\ key < 58
    \/ key = 32

\* String::pop
pop(str) == IF str = <<>> THEN str ELSE SubSeq(str, 1, Len(str) - 1)

\* any other key: pushed if it is a command character, popped on backspace;
\* move_cursor_bottom clears the line the last command printed on
MainKey ==
    /\ \E key \in OtherKeys : Recv(key)
    /\ LET key == Head(chan)
           pushed == IF is_command_char(key) THEN Append(command_string, key)
                     ELSE command_string
       IN command_string' = IF key = KEY_BACKSPACE THEN pop(pushed) ELSE pushed
    /\ out' = NoOut
    /\ UNCHANGED <<disk, colors, status, editor, cl_editor, getch_pc, typed,
                   screen, hist, arg, ret>>

\* getch_thread.join().unwrap()
MainJoin ==
    /\ status = "joining"
    /\ getch_pc = "stopped"
    /\ status' = "returned"
    /\ UNCHANGED <<disk, colors, editor, cl_editor, command_string, chan, getch_pc,
                   typed, screen, out, hist, arg, ret>>

Next ==
    \/ Load
    \/ GetchSend
    \/ GetchBreak
    \/ EnterHelp
    \/ EnterQuit
    \/ EnterGet
    \/ EnterSave
    \/ EnterEmpty
    \/ EnterUnknown
    \/ MainEscape
    \/ MainInterrupt
    \/ MainKey
    \/ MainJoin

Spec == Init /\ [][Next]_vars

\* ---------------------------------------------- the session, scheduled fairly

\* the files of 3 bytes
ShortFiles == {f \in Files : Len(f) = 3}

\* main started on a file of 3 bytes
ShutdownInit ==
    /\ SessionInit
    /\ disk[FilePath] \in ShortFiles
    /\ arg = Idle
    /\ ret = Idle

\* a step of the main thread: the load, or one turn of the loop that finds a
\* key (rx.try_recv() never blocks, so the loop turns as long as the process
\* lives), or the join
MainStep ==
    \/ Load
    \/ EnterHelp
    \/ EnterQuit
    \/ EnterGet
    \/ EnterSave
    \/ EnterEmpty
    \/ EnterUnknown
    \/ MainEscape
    \/ MainInterrupt
    \/ MainKey
    \/ MainJoin

\* the main thread has a step to take: the load, a key waiting for the loop,
\* or the join of the stopped thread. Every key has its arm (13, 27, 3, any
\* other) and every command its arm of parse_command, so this is when
\* MainStep is enabled.
MainLoopEnabled ==
    \/ status = "start"
    \/ status = "running" /\ chan # <<>>
    \/ status = "joining" /\ getch_pc = "stopped"

\* what tells a step of the main thread from a step of the capture thread: it
\* receives a key or changes the status of the process
MainLoopStep == Len(chan') < Len(chan) \/ status' # status

\* weak fairness of MainStep, WF_vars(MainStep), written out with its
\* enabling condition and its steps
MainLoopFair == []<>(~MainLoopEnabled) \/ []<><<MainLoopStep>>_vars

\* Both threads are scheduled: the main thread takes its next step, a command
\* in progress completes, and the capture thread, once it sent key 27 or 3,
\* reaches its break. Nothing makes the user type: getch() may block for ever.
SpecShutdown ==
    /\ ShutdownInit
    /\ [][Next]_vars
    /\ MainLoopFair
    /\ WF_vars(GetchBreak)

\* ------------------------------------------- the functions on their own

\* the session's variables while a function is applied on its own
NoSession ==
    /\ disk = [p \in Paths |-> NoFile]
    /\ colors = FALSE
    /\ status = "off"
    /\ editor = NewEditor
    /\ cl_editor = NewEditor
    /\ command_string = <<>>
    /\ chan = <<>>
    /\ getch_pc = "stopped"
    /\ typed = <<>>
    /\ screen = <<>>
    /\ out = NoOut
    /\ hist = [loaded |-> <<>>, edited |-> FALSE]

RECURSIVE Strings(_, _)
\* the strings of at most n characters of the alphabet
Strings(alphabet, n) ==
    IF n = 0 THEN {<<>>}
    ELSE Strings(alphabet, n - 1)
         \cup {Append(t, c) : t \in {t \in Strings(alphabet, n - 1) : Len(t) = n - 1},
                              c \in alphabet}

\* '0', '9', 'A', 'f', 'G', ' '
HexAlphabet == {48, 57, 65, 102, 71, SPACE}

DecodeInit ==
    /\ NoSession
    /\ arg \in Strings(HexAlphabet, MaxHexLen)
    /\ ret = Idle

\* hex_to_bytes(arg)
Decode ==
    /\ status = "off"
    /\ ret = Idle
    /\ ret' = <<hex_to_bytes(arg)>>
    /\ UNCHANGED <<session_vars, arg>>

SpecDecode == DecodeInit /\ [][Decode]_vars

\* the bytes 00, 0A, 41, C3, A9, FF
ByteAlphabet == {0, NEWLINE, 65, 195, 169, 255}

\* a file of n bytes, its i-th byte being i * k (mod 256)
Pattern(n, k) == [i \in 1..n |-> (i * k) % 256]

\* the files parse_file is given: every file of at most MaxBytesLen bytes of
\* the alphabet, and the files of 0..MaxParseLen bytes of three patterns (text
\* only; text with bytes over 7F; the bytes E9 D2 BB ..)
ByteInputs ==
    Strings(ByteAlphabet, MaxBytesLen)
    \cup {Pattern(n, k) : n \in 0..MaxParseLen, k \in {1, 7, 233}}

ParseInit ==
    /\ NoSession
    /\ arg \in ByteInputs
    /\ ret = Idle

\* EditorState::parse_file on a file holding the bytes arg: the panic of
\* read_to_string's expect, or the hex lines returned
ParseFile ==
    /\ status = "off"
    /\ ret = Idle
    /\ ret' = <<IF read_to_string_ok(arg)
                THEN [op |-> "parse_file", panic |-> NoPanic,
                      hex_lines |-> parse_file(<<>>, arg)]
                ELSE [op |-> "parse_file", panic |-> "Failed to read file contents",
                      hex_lines |-> <<>>]>>
    /\ UNCHANGED <<session_vars, arg>>

\* the bytes arg written as parse_file's loop writes them (lines 231-242), and
\* every line read back as generate_message and `save` read it:
\* hex_to_bytes(line.replace(' ', ""))
EncodeDecode ==
    /\ status = "off"
    /\ ret = Idle
    /\ LET lines == parse_file(<<>>, arg) IN
       ret' = <<[op |-> "encode_decode",
                 hex_lines |-> lines,
                 decoded |-> [i \in 1..Len(lines) |-> hex_to_bytes(StripSpaces(lines[i]))]]>>
    /\ UNCHANGED <<session_vars, arg>>

ParseNext ==
    \/ ParseFile
    \/ EncodeDecode

SpecParse == ParseInit /\ [][ParseNext]_vars

\* 'e', 'h', 'l', 'p', 't', 'a'
NameAlphabet == {101, 104, 108, 112, 116, 97}

SuggestInit ==
    /\ NoSession
    /\ arg \in Strings(NameAlphabet, MaxInputLen)
    /\ ret = Idle

\* "-h", "--help", ...: the arguments get_args takes for a flag
flag_forms == {<<45, c[1]>> : c \in {COMMANDS[k] : k \in 1..Len(COMMANDS)}}
              \cup {<<45, 45>> \o c : c \in {COMMANDS[k] : k \in 1..Len(COMMANDS)}}

\* get_args: an argument that is no flag goes to print_unknown_command_error
SuggestFlag ==
    /\ status = "off"
    /\ ret = Idle
    /\ arg \notin flag_forms
    /\ ret' = <<[list |-> COMMANDS, name |-> closest_match(arg, COMMANDS)]>>
    /\ UNCHANGED <<session_vars, arg>>

\* parse_command: a first token that is no command, and not empty, goes to the last arm
SuggestCommand ==
    /\ status = "off"
    /\ ret = Idle
    /\ to_ascii_lowercase(arg) \notin {STR_help, STR_quit, STR_get, STR_save}
    /\ arg # <<>>
    /\ ret' = <<[list |-> command_names, name |-> closest_match(arg, command_names)]>>
    /\ UNCHANGED <<session_vars, arg>>

SuggestNext ==
    \/ SuggestFlag
    \/ SuggestCommand

SpecSuggest == SuggestInit /\ [][SuggestNext]_vars

\* 'a', 'b', 'c'
DistAlphabet == {97, 98, 99}

\* levenshtein_distance is given a pair of strings
DistanceInit ==
    /\ NoSession
    /\ arg \in Strings(DistAlphabet, MaxDistLen) \X Strings(DistAlphabet, MaxDistLen)
    /\ ret = Idle

\* levenshtein_distance(string1, string2), and with the strings exchanged
Distance ==
    /\ status = "off"
    /\ ret = Idle
    /\ ret' = <<[forth |-> levenshtein_distance(arg[1], arg[2]),
                 back |-> levenshtein_distance(arg[2], arg[1])]>>
    /\ UNCHANGED <<session_vars, arg>>

SpecDistance == DistanceInit /\ [][Distance]_vars

\* ================================================================= claims

\* ---- what the claims speak of, stated apart from the code's own functions

IsHexDigitChar(c) == c \in (48..57) \cup (65..70) \cup (97..102)

DigitValue(c) == IF c <= 57 THEN c - 48 ELSE IF c <= 70 THEN c - 55 ELSE c - 87

AllHexDigits(s) == \A i \in 1..Len(s) : IsHexDigitChar(s[i])

\* s is the base-16 numeral of an integer an i32 holds (the session's keys type
\* no sign and no numeral of more than 8 digits)
ParsesAsOffset(s) ==
    /\ s # <<>>
    /\ AllHexDigits(s)
    /\ Len(s) <= 7 \/ (Len(s) = 8 /\ DigitValue(s[1]) <= 7)

RECURSIVE NumeralValue(_)
NumeralValue(s) ==
    IF s = <<>> THEN 0
    ELSE NumeralValue(SubSeq(s, 1, Len(s) - 1)) * 16 + DigitValue(s[Len(s)])

\* the text decodes: spaces stripped, only hex digits, an even number of them
DecodesAsHex(text) ==
    LET pure == SelectSeq(text, LAMBDA c : c # SPACE) IN
    AllHexDigits(pure) /\ Len(pure) % 2 = 0

\* the bytes a decodable text stands for: one per pair of digits, high nibble first
DecodedBytes(text) ==
    LET pure == SelectSeq(text, LAMBDA c : c # SPACE) IN
    [i \in 1..(Len(pure) \div 2) |-> 16 * DigitValue(pure[2 * i - 1]) + DigitValue(pure[2 * i])]

RECURSIVE SumLen(_)
SumLen(ss) == IF ss = <<>> THEN 0 ELSE Len(Head(ss)) + SumLen(Tail(ss))

\* main receives Enter in this step and dispatches command_string
EnterStep ==
    /\ status = "running"
    /\ chan # <<>>
    /\ Head(chan) = KEY_ENTER
    /\ chan' = Tail(chan)

\* the command dispatched is `name` (the first token, whatever its case)
Dispatches(name) == EnterStep /\ command_of(command_string) = name

\* the command dispatched is a `get` with an argument
GetWithArgument == Dispatches(STR_get) /\ Len(args_of(command_string)) >= 2

GetArgument == args_of(command_string)[2]

\* the stored lines and the cached dump are what they were
BufferUnchanged ==
    /\ cl_editor'.hex_lines = cl_editor.hex_lines
    /\ cl_editor'.pretty_print = cl_editor.pretty_print

\* the step is a `get` that stores a replacement text at index i (from 1)
Replaces(i) ==
    /\ Dispatches(STR_get)
    /\ i \in 1..Len(cl_editor.hex_lines)
    /\ Len(cl_editor'.hex_lines) = Len(cl_editor.hex_lines)
    /\ cl_editor'.hex_lines[i] # cl_editor.hex_lines[i]

\* ---- C1
\* C1: a `get` whose argument parses as a base-16 integer and whose line index
\* (offset div 16) is no index of a stored line (index >= number of lines) reports
\* line-out-of-range, leaves the session at the prompt and the stored lines and
\* the cached dump unchanged.
C1_OutOfRangeReported ==
    [][(/\ GetWithArgument
        /\ ParsesAsOffset(GetArgument)
        /\ NumeralValue(GetArgument) \div ChunkSize >= Len(cl_editor.hex_lines))
       => (/\ out'.msg = "Line out of range."
           /\ status' = "running"
           /\ BufferUnchanged)]_vars

\* ---- C2
\* C2 as stated: a `get` whose argument does not parse as a base-16 integer is
\* reported and returns to the prompt; stored lines, cached dump and the file on
\* disk are unchanged.
C2_InvalidOffsetReturnsToPrompt ==
    [][(GetWithArgument /\ ~ParsesAsOffset(GetArgument))
       => (/\ status' = "running"
           /\ BufferUnchanged
           /\ disk' = disk)]_vars

\* C2 as amended: a `get` whose argument is not empty and does not parse as a
\* base-16 i32 is reported as an invalid value and ends the process with exit
\* status 1; a `get` whose argument is empty is reported as "No line specified."
\* and returns to the prompt; in both cases the stored lines, the cached dump and
\* the file on disk are unchanged.
C2_InvalidOffsetExits ==
    [][(GetWithArgument /\ ~ParsesAsOffset(GetArgument))
       => (/\ IF GetArgument = <<>>
              THEN out'.msg = "No line specified." /\ status' = "running"
              ELSE out'.msg = "Invalid value" /\ out'.text = GetArgument /\ status' = "exit1"
           /\ BufferUnchanged
           /\ disk' = disk)]_vars

\* a `get G` (or `get 80000000`) has ended the process with status 1
C2_Witness == status = "exit1" /\ out.msg = "Invalid value" /\ ~ParsesAsOffset(out.text)

\* ---- C3
\* C3: when the replacement text submitted during a `get` edit does not decode,
\* the session does not terminate: control returns to the prompt.
C3_BadReplacementReturnsToPrompt ==
    [][\A i \in 1..Len(cl_editor.hex_lines) :
        (Replaces(i) /\ ~DecodesAsHex(cl_editor'.hex_lines[i])) => status' = "running"]_vars

\* ---- C4
\* C4: a `save` that fails leaves the process running at the prompt; the process
\* terminates from `save` only when the save succeeded.
C4_FailedSaveReturnsToPrompt ==
    [][Dispatches(STR_save)
       => \/ status' = "running"
          \/ status' = "exit0" /\ out'.msg = "Saved to"]_vars

\* ---- C5
\* C5 speaks of a `save` applied to a buffer holding a line that does not decode.
\* No run of the program reaches one: whenever a `save` is dispatched every
\* stored line decodes, a replacement that does not decode having ended the
\* process in the `get` that stored it.
SaveMeetsOnlyDecodableLines ==
    [][Dispatches(STR_save)
       => \A i \in 1..Len(cl_editor.hex_lines) : DecodesAsHex(cl_editor.hex_lines[i])]_vars

\* ---- C6
\* the path a `save` writes: its argument, or the file edited
SaveTarget ==
    IF Len(args_of(command_string)) >= 2 THEN args_of(command_string)[2] ELSE FilePath

Saved == status = "exit0" /\ out.msg = "Saved to"

\* C6: a successful `save` writes to the target path exactly the bytes of the
\* stored lines, each decoded (spaces stripped), concatenated in line order;
\* the file's length is the sum of the decoded lengths, and with no edit the
\* bytes saved are the bytes loaded.
C6_SaveWritesDecodedLines ==
    Saved =>
        LET lines == cl_editor.hex_lines
            decoded == [i \in 1..Len(lines) |-> DecodedBytes(lines[i])]
        IN /\ SaveTarget \in Paths
           /\ disk[SaveTarget] = Concat(decoded)
           /\ Len(disk[SaveTarget]) = SumLen(decoded)
           /\ ~hist.edited => disk[SaveTarget] = hist.loaded

\* the longest file, its line 1 replaced by a text of 2 bytes, saved as 16 + 2 bytes
C6_Witness ==
    /\ Saved
    /\ hist.edited
    /\ Len(hist.loaded) = MaxFileLen
    /\ Len(cl_editor.hex_lines) = 2
    /\ DecodedBytes(cl_editor.hex_lines[2]) = <<65, 66>>
    /\ Len(disk[SaveTarget]) = ChunkSize + 2

\* ---- C7
\* C7: whatever bytes the file holds, loading it and rendering the dump succeeds.
C7_AnyFileLoads == [][status = "start" => status' \in {"start", "running"}]_vars

\* ---- C8
\* the text column of a row: the bytes, every newline shown as the dot (styled
\* when colors is set)
ShownText(bytes) ==
    Concat([k \in 1..Len(bytes) |->
        IF bytes[k] = NEWLINE THEN (IF colors THEN bold_black_dot ELSE <<DOT>>)
        ELSE <<bytes[k]>>])

\* the hex column shows the text: the text, then only spaces
ShowsHex(column, text) ==
    /\ Len(column) >= Len(text)
    /\ SubSeq(column, 1, Len(text)) = text
    /\ \A k \in (Len(text) + 1)..Len(column) : column[k] = SPACE

\* C8: after a `get` edit sets line i to a text X that decodes as hex, the next
\* dump displayed shows X in row i's hex column and X's bytes (newlines as '.')
\* in its text column, and the session continues.
C8_EditShownInDump ==
    [][\A i \in 1..Len(cl_editor.hex_lines) :
        (Replaces(i) /\ DecodesAsHex(cl_editor'.hex_lines[i]))
        => (/\ status' = "running"
            /\ Len(screen') >= i
            /\ ShowsHex(screen'[i].hex, cl_editor'.hex_lines[i])
            /\ screen'[i].text = ShownText(DecodedBytes(cl_editor'.hex_lines[i])))]_vars

\* ---- C9
\* C9: the name suggested is a candidate at the least distance from the input,
\* and the first such candidate of the list - also for an input equal to a candidate.
C9_SuggestMinimalFirst ==
    ret # <<>> =>
        LET list == ret[1].list
            d(k) == levenshtein_distance(arg, list[k])
        IN \E k \in 1..Len(list) :
            /\ ret[1].name = list[k]
            /\ \A j \in 1..Len(list) : d(k) <= d(j)
            /\ \A j \in 1..(k - 1) : d(j) > d(k)

\* ---- C10
\* C10: decode fails if a character is no hex digit, fails if all are hex digits
\* in odd number, and else succeeds with one byte per pair of digits, high nibble
\* first (the empty sequence for the empty string).
C10_DecodeOutcome ==
    ret # <<>> =>
        IF ~AllHexDigits(arg) THEN ~ret[1].ok
        ELSE IF Len(arg) % 2 = 1 THEN ~ret[1].ok
        ELSE /\ ret[1].ok
             /\ ret[1].bytes = [i \in 1..(Len(arg) \div 2) |->
                                   16 * DigitValue(arg[2 * i - 1]) + DigitValue(arg[2 * i])]

\* "0A9f" decoded to the bytes 0x0A, 0x9F
C10_Witness == arg = <<48, 65, 57, 102>> /\ ret = <<[ok |-> TRUE, bytes |-> <<10, 159>>]>>

\* ---- C11
\* the two upper-case hex digits of a byte
TwoUpperDigits(b) ==
    LET digit(n) == IF n <= 9 THEN 48 + n ELSE 65 + (n - 10) IN
    <<digit(b \div 16), digit(b % 16)>>

\* C11: every byte sequence B written out is, separators stripped, two
\* upper-case hex digits per byte in B's order, and decoding what was written
\* gives B back.
C11_RoundTrip ==
    (ret # <<>> /\ ret[1].op = "encode_decode") =>
        LET lines == ret[1].hex_lines
            written == SelectSeq(Concat(lines), LAMBDA c : c # SPACE)
        IN /\ written = Concat([i \in 1..Len(arg) |-> TwoUpperDigits(arg[i])])
           /\ \A i \in 1..Len(lines) : ret[1].decoded[i].ok
           /\ Concat([i \in 1..Len(lines) |-> ret[1].decoded[i].bytes]) = arg

\* the 33 bytes E9 D2 BB .. written on three lines and read back
C11_Witness ==
    /\ ret # <<>>
    /\ ret[1].op = "encode_decode"
    /\ Len(arg) = 2 * ChunkSize + 1
    /\ arg[1] = 233
    /\ Len(ret[1].hex_lines) = 3
    /\ ret[1].decoded[3].bytes = <<arg[2 * ChunkSize + 1]>>

\* ---- C12
CeilDiv(n, d) == (n + d - 1) \div d

\* the hex lines are the chunking of B: ceil(len / 16) of them, each but the
\* last decoding to 16 bytes, the last to the remainder (16 if none), and the
\* decoded lines concatenated are B
IsChunkingOf(lines, B) ==
    /\ Len(lines) = CeilDiv(Len(B), ChunkSize)
    /\ \A i \in 1..Len(lines) : DecodesAsHex(lines[i])
    /\ \A i \in 1..(Len(lines) - 1) : Len(DecodedBytes(lines[i])) = ChunkSize
    /\ Len(lines) > 0 =>
          Len(DecodedBytes(lines[Len(lines)])) =
              (IF Len(B) % ChunkSize = 0 THEN ChunkSize ELSE Len(B) % ChunkSize)
    /\ Concat([i \in 1..Len(lines) |-> DecodedBytes(lines[i])]) = B

\* C12: for every byte sequence B, parse(B) produces the chunking of B.
C12_ParseChunksAnyBytes ==
    (ret # <<>> /\ ret[1].op = "parse_file") =>
        /\ ret[1].panic = NoPanic
        /\ IsChunkingOf(ret[1].hex_lines, arg)

\* what the code does keep: parse(B) produces the chunking of B for every B
\* that is UTF-8
ParseChunksUtf8 ==
    (ret # <<>> /\ ret[1].op = "parse_file" /\ IsUtf8(arg)) =>
        /\ ret[1].panic = NoPanic
        /\ IsChunkingOf(ret[1].hex_lines, arg)

\* ---- C13
\* the digit of n at the k-th of 8 places (the first the most significant)
OffsetDigit(n, k) ==
    LET RECURSIVE pow16(_)
        pow16(e) == IF e = 0 THEN 1 ELSE 16 * pow16(e - 1)
        v == (n \div pow16(8 - k)) % 16
    IN IF v <= 9 THEN 48 + v ELSE 65 + (v - 10)

\* n as 8 upper-case hex digits, zero-padded
EightDigits(n) == [k \in 1..8 |-> OffsetDigit(n, k)]

\* a render has completed: the session is past loading and no panic cut a
\* render short
Rendered == status \in {"running", "joining", "returned", "exit0", "exit1"}

\* C13: in every dump displayed row i (from 0) carries the offset i * 16 as 8
\* zero-padded upper-case hex digits, whatever the bytes the stored lines decode
\* to (also after edits that shorten or lengthen them), and after each render
\* the offset counter rests at 16 * (number of lines).
C13_RowOffsets ==
    /\ \A i \in 1..Len(screen) : screen[i].offset = EightDigits((i - 1) * 16)
    /\ Rendered =>
          /\ Len(screen) = Len(cl_editor.hex_lines)
          /\ cl_editor.offset = 16 * Len(cl_editor.hex_lines)
          /\ editor.offset = 16 * Len(editor.hex_lines)

\* the dump of the 20-byte file after line 0 was cut to 2 bytes and line 1
\* lengthened to 17 bytes: the second row is still at 00000010
C13_Witness ==
    /\ status = "running"
    /\ Len(screen) = 2
    /\ Len(DecodedBytes(cl_editor.hex_lines[1])) = 2
    /\ Len(DecodedBytes(cl_editor.hex_lines[2])) = ChunkSize + 1
    /\ screen[2].offset = <<48, 48, 48, 48, 48, 48, 49, 48>>
    /\ editor.offset = 2 * ChunkSize

\* ---- C14
KnownCommands == {STR_help, STR_quit, STR_get, STR_save}

\* the command dispatched is empty: its first token is the empty string
DispatchesEmpty == EnterStep /\ args_of(command_string)[1] = <<>>

\* the command dispatched is unknown: its first token is not empty and is,
\* whatever its case, none of the four commands
DispatchesUnknown ==
    /\ EnterStep
    /\ args_of(command_string)[1] # <<>>
    /\ command_of(command_string) \notin KnownCommands

\* C14: `help`, the empty command and an unknown command leave the session
\* running and the stored lines, the cached dump and the file on disk as they
\* were; an unknown command is answered with a suggestion naming one of the
\* four commands.
C14_HarmlessCommands ==
    [][(Dispatches(STR_help) \/ DispatchesEmpty \/ DispatchesUnknown)
       => (/\ status' = "running"
           /\ BufferUnchanged
           /\ disk' = disk
           /\ DispatchesUnknown =>
                 (out'.msg = "Unknown command" /\ out'.text \in KnownCommands))]_vars

\* in the matcher on its own: whatever the input, the name suggested for an
\* unknown command is one of the four
SuggestionNamesCommand ==
    (ret # <<>> /\ ret[1].list = command_names) => ret[1].name \in KnownCommands

\* `hepl` was answered with the suggestion `help`, the session at the prompt
\* with an edited buffer
C14_Witness ==
    /\ status = "running"
    /\ out.msg = "Unknown command"
    /\ out.text = STR_help
    /\ hist.edited
    /\ command_string = <<>>

\* ---- C15
\* C15: whenever the session is at the prompt, the dump displayed last - the
\* one of the load, or the one displayed after the last command - is a fresh
\* render of the lines stored now with the color flag, and so are the cached
\* dumps of both editor copies: no dump from before an edit is displayed.
C15_CacheCoherent ==
    status = "running" =>
        LET fresh == generate_message(cl_editor.hex_lines, colors) IN
        /\ fresh.panic = NoPanic
        /\ screen = fresh.message
        /\ cl_editor.pretty_print = fresh.message
        /\ editor.hex_lines = cl_editor.hex_lines
        /\ editor.pretty_print = fresh.message

\* with colors on, line 0 was replaced by the 17-byte line (a newline in it)
\* and the dump displayed shows it, not the line loaded
C15_Witness ==
    /\ status = "running"
    /\ colors
    /\ hist.edited
    /\ Len(screen) = 1
    /\ cl_editor.hex_lines[1] = LongLine
    /\ ShowsHex(screen[1].hex, LongLine)
    /\ screen # generate_message(parse_file(<<>>, hist.loaded), colors).message

\* ---- C16
\* the `get` dispatched printed the line selected and was answered with the
\* empty text
EmptyReplacementGiven == Dispatches(STR_get) /\ out'.msg = "line"

\* C16: a `get` at hex offset o changes at most the stored line at index
\* o div 16: the number of lines is kept and every other line keeps its text
\* and its position (a `get` with no offset changes no line); answered with the
\* empty text it leaves the line selected, the cached dump and the whole buffer
\* as they were.
C16_EditTouchesOneLine ==
    [][Dispatches(STR_get)
       => (/\ Len(cl_editor'.hex_lines) = Len(cl_editor.hex_lines)
           /\ \A j \in 1..Len(cl_editor.hex_lines) :
                 \/ cl_editor'.hex_lines[j] = cl_editor.hex_lines[j]
                 \/ /\ GetWithArgument
                    /\ ParsesAsOffset(GetArgument)
                    /\ j = (NumeralValue(GetArgument) \div 16) + 1
           /\ EmptyReplacementGiven =>
                 (/\ BufferUnchanged
                  /\ cl_editor' = cl_editor
                  /\ out'.text = cl_editor.hex_lines[(NumeralValue(GetArgument) \div 16) + 1]
                  /\ status' = "running"))]_vars

\* `get 10` replaced line 1 of the 20-byte file by the 17-byte line, and line 0
\* is the 16 bytes loaded
C16_Witness ==
    /\ status = "running"
    /\ out.msg = "edited"
    /\ Len(cl_editor.hex_lines) = 2
    /\ cl_editor.hex_lines[2] = LongLine
    /\ DecodedBytes(cl_editor.hex_lines[1]) = SubSeq(hist.loaded, 1, ChunkSize)

\* a `get` answered with the empty text has printed the line and returned
C16_EmptyAnswerReached ==
    /\ status = "running"
    /\ out.msg = "line"
    /\ hist.edited
    /\ out.text = cl_editor.hex_lines[1]

\* ---- C17
\* the key captured last is the escape key, not yet received
EscapeCaptured == chan # <<>> /\ chan[Len(chan)] = KEY_ESC

\* no command waits in the channel before the escape
NoCommandQueued == \A i \in 1..Len(chan) : chan[i] # KEY_ENTER

\* the process has ended: main returned after the join, or a command ended it
Terminated == status \in {"returned", "exit0", "exit1", "panic"}

\* the steps MainLoopFair speaks of are the steps of the main thread
MainLoopStepIsMainStep == [][MainLoopStep <=> MainStep]_vars

RECURSIVE TypeKeys(_, _)
\* the command text after the keys are typed onto the text cs, in order: a
\* letter (but Z), a digit or a space is appended, a backspace removes the last
\* character, any other key changes nothing
TypeKeys(cs, keys) ==
    IF keys = <<>> THEN cs
    ELSE LET k == Head(keys)
             next == IF k \in (65..89) \cup (97..122) \cup (48..57) \cup {32}
                     THEN Append(cs, k)
                     ELSE IF k = 8 /\ cs # <<>> THEN SubSeq(cs, 1, Len(cs) - 1)
                     ELSE cs
         IN TypeKeys(next, Tail(keys))

\* No key lost, none reordered: the keys captured since the last Enter are the
\* keys waiting after the last Enter in the channel, or, when no Enter waits,
\* the keys main has typed into command_string followed by the keys waiting.
KeysInOrder ==
    ProcessAlive =>
        LET enters == {i \in 1..Len(chan) : chan[i] = KEY_ENTER} IN
        IF enters = {}
        THEN TypeKeys(command_string, chan) = TypeKeys(<<>>, typed)
        ELSE LET last == CHOOSE i \in enters : \A j \in enters : j <= i
             IN SubSeq(chan, last + 1, Len(chan)) = typed

\* a step sends one key at the end of the channel, or receives the key at its
\* head, or leaves the channel alone; the escape key sent stops the thread,
\* and a stopped thread sends nothing
ChannelStep ==
    /\ \/ chan' = chan
       \/ chan # <<>> /\ chan' = Tail(chan)
       \/ getch_pc = "getch" /\ \E k \in NextKeys : chan' = Append(chan, k)
    /\ (Len(chan') > Len(chan) /\ chan'[Len(chan')] = KEY_ESC) => getch_pc' = "sent"
    /\ getch_pc # "getch" => (Len(chan') <= Len(chan) /\ getch_pc' # "getch")

\* C17: the capture thread sends the escape key and then nothing; the keys
\* reach main in the order captured, none lost; once the escape is captured
\* the process terminates, and when no command waits before the escape main
\* receives it, leaves its loop and returns after joining the thread.
C17_EscapeShutsDown ==
    /\ []KeysInOrder
    /\ [][ChannelStep]_vars
    /\ EscapeCaptured ~> Terminated
    /\ (EscapeCaptured /\ status = "running" /\ NoCommandQueued) ~> (status = "returned")

\* "he" then Escape: main typed both letters, received the escape, joined the
\* stopped thread and returned
C17_Witness ==
    /\ status = "returned"
    /\ getch_pc = "stopped"
    /\ chan = <<>>
    /\ command_string = <<104, 101>>
    /\ typed = <<104, 101, KEY_ESC>>

\* ---- C18
RECURSIVE OSA(_, _, _, _)
\* the optimal-string-alignment distance of the first i characters of a and
\* the first j of b: the least number of insertions, deletions, substitutions
\* and transpositions of two adjacent characters, each costing 1, no
\* character edited twice
OSA(a, b, i, j) ==
    IF i = 0 THEN j
    ELSE IF j = 0 THEN i
    ELSE LET deletion == OSA(a, b, i - 1, j) + 1
             insertion == OSA(a, b, i, j - 1) + 1
             substitution == OSA(a, b, i - 1, j - 1) + (IF a[i] = b[j] THEN 0 ELSE 1)
             least == IF deletion <= insertion /\ deletion <= substitution THEN deletion
                      ELSE IF insertion <= substitution THEN insertion
                      ELSE substitution
         IN IF i > 1 /\ j > 1 /\ a[i] = b[j - 1] /\ a[i - 1] = b[j]
            THEN LET transposition == OSA(a, b, i - 2, j - 2) + 1 IN
                 IF transposition < least THEN transposition ELSE least
            ELSE least

\* b is a with the two distinct characters at k and k + 1 exchanged
IsAdjacentSwap(a, b, k) ==
    /\ k \in 1..(Len(a) - 1)
    /\ a[k] # a[k + 1]
    /\ b = [i \in 1..Len(a) |-> IF i = k THEN a[k + 1] ELSE IF i = k + 1 THEN a[k] ELSE a[i]]

\* C18: the distance computed is the optimal-string-alignment distance of the
\* two strings; it is 0 for equal strings, the same in both directions, and 1
\* for a string and the string with two adjacent distinct characters exchanged.
C18_DistanceIsOSA ==
    ret # <<>> =>
        /\ ret[1].forth = OSA(arg[1], arg[2], Len(arg[1]), Len(arg[2]))
        /\ arg[1] = arg[2] => ret[1].forth = 0
        /\ ret[1].forth = ret[1].back
        /\ (\E k \in 1..Len(arg[1]) : IsAdjacentSwap(arg[1], arg[2], k)) => ret[1].forth = 1

\* the distance of "abc" and "acb" is 1: one transposition, where insertions,
\* deletions and substitutions alone take 2
C18_Witness ==
    /\ arg = <<<<97, 98, 99>>, <<97, 99, 98>>>>
    /\ ret = <<[forth |-> 1, back |-> 1]>>

\* ---- C19
\* every line of the buffer decodes
AllLinesDecode(hex_lines) == \A i \in 1..Len(hex_lines) : DecodesAsHex(hex_lines[i])

\* C19: whenever the session is at the prompt every stored line decodes, in
\* command_line.editor and in main's editor: an edit that stores a text that
\* does not decode does not leave the session running, so no `save` issued from
\* the prompt meets such a line.
C19_PromptLinesDecode ==
    status = "running" => (AllLinesDecode(cl_editor.hex_lines) /\ AllLinesDecode(editor.hex_lines))

\* the session at the prompt after an edit, `save` typed and waiting for its
\* Enter to be received
C19_Witness ==
    /\ status = "running"
    /\ hist.edited
    /\ command_string = STR_save
    /\ chan = <<KEY_ENTER>>
    /\ AllLinesDecode(cl_editor.hex_lines)

\* the case the invariant excludes from the prompt: an edit stored a text that
\* does not decode, and the process is dead
UndecodableEditEndsSession ==
    /\ status = "panic"
    /\ out.msg = PanicDecode
    /\ ~AllLinesDecode(cl_editor.hex_lines)

\* ---- C20
\* C20: the load stores ceil(file length / 16) lines; no command changes the
\* number of stored lines; and no step but a `save` dispatched changes a file
\* on disk - no get, help, quit, escape, interrupt or key typed.
C20_LineCountAndDiskFrame ==
    [][/\ (status = "start" /\ status' = "running") =>
             Len(cl_editor'.hex_lines) = CeilDiv(Len(disk[FilePath]), ChunkSize)
       /\ status = "running" =>
             /\ Len(cl_editor'.hex_lines) = Len(cl_editor.hex_lines)
             /\ Len(cl_editor.hex_lines) = CeilDiv(Len(hist.loaded), ChunkSize)
             /\ Len(editor.hex_lines) = Len(cl_editor.hex_lines)
       /\ disk' # disk => Dispatches(STR_save)]_vars

\* the 20-byte file after both its lines were replaced (17 + 2 bytes) and
\* saved: still two lines, and the file on disk written by the save alone
C20_Witness ==
    /\ Saved
    /\ Len(hist.loaded) = MaxFileLen
    /\ Len(cl_editor.hex_lines) = 2
    /\ cl_editor.hex_lines[1] = LongLine
    /\ Len(DecodedBytes(cl_editor.hex_lines[2])) = 2
    /\ disk[SaveTarget] # hist.loaded

====
